---- MODULE Spec2Model ----
(***************************************************************************)
(* SSD1306_Custom_Font: the display driver's framebuffer, glyph blitter,   *)
(* glyph pager and .pf font loader (SSD1306_Custom_Font.py) and the .pf    *)
(* encoder (convert_font.py), as state machines.                           *)
(*                                                                         *)
(*   Spec        the display object: load_font, select_font, text,         *)
(*               draw_pixel, fill on one SSD1306 instance                  *)
(*   SpecPager   one rasterised glyph, row-packed as ttf_to_pf packs it,   *)
(*               then paged by _convert_char_to_paged_format               *)
(*   SpecEncode  ttf_to_pf's loop over the charset: the blob's length and  *)
(*               the character-table entries it writes                     *)
(*                                                                         *)
(* Python's 0-based indices are kept in the operators' arguments; the      *)
(* sequences are 1-based, so font_data[i] is written data[i + 1].          *)
(***************************************************************************)
EXTENDS Integers, Sequences, FiniteSets, TLC

VARIABLES
    \* ---- the SSD1306 object (Spec)
    runtime,       \* the interpreter running the driver: "CPython" or "MicroPython"
    width,         \* self.width
    height,        \* self.height
    pages,         \* self.pages
    buffer,        \* self.buffer: [n, bg, fg], see Byte below
    fonts,         \* self.fonts, a function loaded name -> font table
    active_font,   \* self.active_font, a font table or None
    result,        \* how the last call on the object ended
    lastOp,        \* the method last called on the object, and its arguments
    nLoads,        \* number of load_font calls made
    nDraws,        \* number of text / draw_pixel / fill calls made
    \* ---- one glyph through the row packer and the pager (SpecPager)
    pc,            \* "raster", "packed", "paged"; "off" outside SpecPager
    glyph,         \* the rasterised glyph: [w, h, pixels], pixels a set of <<x, y>>
    char_def,      \* the character-table entry of the glyph
    font_data,     \* the raw blob the pager reads
    paged_data,    \* the pager's result
    \* ---- ttf_to_pf (SpecEncode)
    line_height,   \* ascent + descent of the typeface at the chosen size
    bitmaps_len,   \* len(bitmaps)
    char_table,    \* the bytearray of table entries written so far
    glyph_starts,  \* for each glyph, len(bitmaps) when its rows were appended
    enc            \* "run", "raised", "written"; "off" outside SpecEncode

dispVars == <<runtime, width, height, pages, buffer, fonts, active_font,
              result, lastOp, nLoads, nDraws>>
pagerVars == <<pc, glyph, char_def, font_data, paged_data>>
encVars == <<line_height, bitmaps_len, char_table, glyph_starts, enc>>
vars == <<dispVars, pagerVars, encVars>>

\* ------------------------------------------------------------------------
\* Program constants
\* ------------------------------------------------------------------------
WIDTH == 128
HEIGHT == 64

\* ------------------------------------------------------------------------
\* Bounds of the model
\* ------------------------------------------------------------------------
MaxW == 9          \* widest glyph given to the pager
MaxH == 10         \* tallest glyph given to the pager
MaxStart == 1      \* largest start_index given to the pager
MaxLoads == 2      \* load_font calls per run
MaxDraws == 2      \* drawing calls per run
MaxChars == 10     \* characters of the charset given to ttf_to_pf

\* ------------------------------------------------------------------------
\* Integer bit arithmetic on non-negative integers
\* ------------------------------------------------------------------------
Pow2(k) == 2 ^ k

\* (b >> k) & 1
Bit(b, k) == (b \div Pow2(k)) % 2

\* a | b
RECURSIVE BitOr(_, _)
BitOr(a, b) ==
    IF a = 0 THEN b
    ELSE IF b = 0 THEN a
    ELSE (IF a % 2 = 1 \/ b % 2 = 1 THEN 1 ELSE 0) + 2 * BitOr(a \div 2, b \div 2)

\* b << s
Shl(b, s) == b * Pow2(s)

\* b >> s
Shr(b, s) == b \div Pow2(s)

\* a & ~mask, for a one-bit mask 1 << k and a byte a
AndNotBit(a, k) == IF Bit(a, k) = 1 THEN a - Pow2(k) ELSE a

Min(a, b) == IF a < b THEN a ELSE b

\* ------------------------------------------------------------------------
\* convert_font.py: row packing of one rasterised glyph (lines 103-114)
\* ------------------------------------------------------------------------
\* img.getpixel((x, y)) of the glyph image
GetPixel(g, x, y) == IF <<x, y>> \in g.pixels THEN 1 ELSE 0

\* The inner loop over x of one row y: st = [out, byte, bit_count].
RECURSIVE PackRowFrom(_, _, _, _)
PackRowFrom(g, y, x, st) ==
    IF x >= g.w THEN st
    ELSE LET byte == Shl(st.byte, 1) + GetPixel(g, x, y)
             bit_count == st.bit_count + 1
         IN IF bit_count = 8
            THEN PackRowFrom(g, y, x + 1,
                     [out |-> Append(st.out, byte), byte |-> 0, bit_count |-> 0])
            ELSE PackRowFrom(g, y, x + 1,
                     [out |-> st.out, byte |-> byte, bit_count |-> bit_count])

\* One row y appended to the blob `out`, the last partial byte left-aligned.
PackRow(g, y, out) ==
    LET st == PackRowFrom(g, y, 0, [out |-> out, byte |-> 0, bit_count |-> 0])
    IN IF st.bit_count > 0
       THEN Append(st.out, Shl(st.byte, 8 - st.bit_count))
       ELSE st.out

\* All rows of the glyph appended to the blob `out`.
RECURSIVE PackGlyphFrom(_, _, _)
PackGlyphFrom(g, y, out) ==
    IF y >= g.h THEN out ELSE PackGlyphFrom(g, y + 1, PackRow(g, y, out))

PackGlyph(g, out) == PackGlyphFrom(g, 0, out)

\* ------------------------------------------------------------------------
\* SSD1306._convert_char_to_paged_format (lines 155-190)
\* ------------------------------------------------------------------------
NumPages(h) == (h + 7) \div 8
WidthInBytes(w) == (w + 7) \div 8

SrcByteIndex(start_index, w, x, y) == start_index + (y * WidthInBytes(w)) + (x \div 8)

SrcBitIndexLsbFirst(x) == x % 8
SrcBitIndex(x) == 7 - (x % 8)

DestBitMask(y) == Pow2(y % 8)

\* font_data[src_byte_index] raises IndexError past the end of the blob; the
\* loops read the byte of every pixel of the glyph.
ConvertRaises(cd, data) ==
    \E y \in 0..(cd.char_height - 1), x \in 0..(cd.char_width - 1) :
        SrcByteIndex(cd.start_index, cd.char_width, x, y) >= Len(data)

\* (font_data[src_byte_index] >> src_bit_index) & 1
SrcPixel(cd, data, x, y) ==
    Bit(data[SrcByteIndex(cd.start_index, cd.char_width, x, y) + 1], SrcBitIndex(x))

\* paged_data[page][x] after the rows y..height-1 of the page were visited,
\* starting from the value acc.
RECURSIVE PageByteFrom(_, _, _, _, _, _)
PageByteFrom(cd, data, page, x, y, acc) ==
    IF y >= cd.char_height \/ y \div 8 # page THEN acc
    ELSE PageByteFrom(cd, data, page, x, y + 1,
             IF SrcPixel(cd, data, x, y) = 1
             THEN BitOr(acc, DestBitMask(y))
             ELSE acc)

ConvertCharToPagedFormat(cd, data) ==
    [p \in 1..NumPages(cd.char_height) |->
        [c \in 1..cd.char_width |->
            PageByteFrom(cd, data, p - 1, c - 1, 8 * (p - 1), 0)]]

\* ------------------------------------------------------------------------
\* Values the variables of the other specifications rest at
\* ------------------------------------------------------------------------
NoGlyph == [w |-> 0, h |-> 0, pixels |-> {}]
NoCharDef == [char_width |-> 0, char_height |-> 0, start_index |-> 0]
NoChars == [c \in {} |-> 0]
None == [name |-> "None", default_character |-> -1, character_count |-> 0,
         characters |-> NoChars]

DispIdle ==
    /\ runtime = "off" /\ width = 0 /\ height = 0 /\ pages = 0
    /\ buffer = [n |-> 0, bg |-> 0, fg |-> NoChars] /\ fonts = NoChars /\ active_font = None
    /\ result = "off" /\ lastOp = [op |-> "off"] /\ nLoads = 0 /\ nDraws = 0
PagerIdle ==
    /\ pc = "off" /\ glyph = NoGlyph /\ char_def = NoCharDef
    /\ font_data = <<>> /\ paged_data = <<>>
EncIdle ==
    /\ line_height = 0 /\ bitmaps_len = 0 /\ char_table = <<>>
    /\ glyph_starts = <<>> /\ enc = "off"

\* ------------------------------------------------------------------------
\* SpecPager: rasterised glyph -> row-packed bitmap -> paged glyph
\* ------------------------------------------------------------------------
\* The pixel patterns given to the packer: nothing lit, everything lit, one
\* pixel lit, all but one pixel lit.
AllPixels(w, h) == (0..(w - 1)) \X (0..(h - 1))
Patterns(w, h) ==
    {{}, AllPixels(w, h)}
        \cup {{p} : p \in AllPixels(w, h)}
        \cup {AllPixels(w, h) \ {p} : p \in AllPixels(w, h)}

\* The bytes in front of the glyph's bitmap in the blob (another glyph's).
Filler(n) == [i \in 1..n |-> 255]

InitPager ==
    /\ DispIdle /\ EncIdle
    /\ pc = "raster"
    /\ \E w \in 0..MaxW, h \in 0..MaxH :
         \E px \in Patterns(w, h) : glyph = [w |-> w, h |-> h, pixels |-> px]
    /\ \E s \in 0..MaxStart :
         char_def = [char_width |-> glyph.w, char_height |-> glyph.h, start_index |-> s]
    /\ font_data = <<>>
    /\ paged_data = <<>>

\* ttf_to_pf: start_index = len(bitmaps), then the glyph's rows are appended.
Pack ==
    /\ pc = "raster"
    /\ font_data' = PackGlyph(glyph, Filler(char_def.start_index))
    /\ pc' = "packed"
    /\ UNCHANGED <<glyph, char_def, paged_data>>
    /\ UNCHANGED <<dispVars, encVars>>

\* load_font line 237: the glyph is paged from the blob.
Convert ==
    /\ pc = "packed"
    /\ ~ConvertRaises(char_def, font_data)
    /\ paged_data' = ConvertCharToPagedFormat(char_def, font_data)
    /\ pc' = "paged"
    /\ UNCHANGED <<glyph, char_def, font_data>>
    /\ UNCHANGED <<dispVars, encVars>>

NextPager == Pack \/ Convert
SpecPager == InitPager /\ [][NextPager]_vars

\* ------------------------------------------------------------------------
\* convert_font.py: ttf_to_pf on a whole (small) charset, byte for byte
\* ------------------------------------------------------------------------
\* The character-table entry of one glyph (lines 117-123). bytearray.extend
\* takes the five values as they are; the two start_index bytes are masked.
TableEntry(code, w, h, start_index) ==
    <<code, w, h, start_index % 256, (start_index \div 256) % 256>>

\* The loop over the charset from its i-th glyph on (lines 92-123):
\* st = [char_table, bitmaps]. Every glyph image is line_height rows tall.
RECURSIVE EncodeFrom(_, _, _, _)
EncodeFrom(glyphs, lh, i, st) ==
    IF i > Len(glyphs) THEN st
    ELSE LET g == glyphs[i]
             start_index == Len(st.bitmaps)
         IN EncodeFrom(glyphs, lh, i + 1,
                [bitmaps |-> PackGlyph([w |-> g.w, h |-> lh, pixels |-> g.pixels],
                                       st.bitmaps),
                 char_table |-> st.char_table
                                   \o TableEntry(g.code, g.w, lh, start_index)])

\* The bytes of the .pf file: header, character table, blob (lines 84, 125-128).
\* ttf_to_pf always passes default_char = ord("?").
PfBytes(default_char, glyphs, lh) ==
    LET st == EncodeFrom(glyphs, lh, 1, [char_table |-> <<>>, bitmaps |-> <<>>])
    IN <<80, 70, default_char, Len(glyphs)>> \o st.char_table \o st.bitmaps

QuestionMark == 63
TtfToPf(glyphs, lh) == PfBytes(QuestionMark, glyphs, lh)

\* ------------------------------------------------------------------------
\* SSD1306.__init__ (lines 34-44)
\* ------------------------------------------------------------------------
\* self.pages = HEIGHT // 8 and bytearray(self.pages * WIDTH): the module
\* constants, whatever width and height the caller passes.
InitPages(w, h) == HEIGHT \div 8
InitBuffer(w, h) == [n |-> InitPages(w, h) * WIDTH, bg |-> 0, fg |-> NoChars]

\* ------------------------------------------------------------------------
\* The bytearray
\* ------------------------------------------------------------------------
\* A bytearray of n bytes is kept as [n, bg, fg]: its length, a background
\* byte, and the function fg from the indices whose byte differs from bg to
\* that byte. Every bytearray has exactly one such record.

\* len(buf)
BufLen(buf) == buf.n

\* buf[i], for 0 <= i < len(buf)
Byte(buf, i) == IF i \in DOMAIN buf.fg THEN buf.fg[i] ELSE buf.bg

\* buf after buf[i] = v, for 0 <= i < len(buf)
WithByte(buf, i, v) ==
    IF v = buf.bg
    THEN [buf EXCEPT !.fg = [j \in (DOMAIN buf.fg) \ {i} |-> buf.fg[j]]]
    ELSE [buf EXCEPT !.fg = (i :> v) @@ buf.fg]

\* b"\x.." * len(buf)
Filled(buf, v) == [n |-> buf.n, bg |-> v, fg |-> NoChars]

\* ------------------------------------------------------------------------
\* Stores into the bytearray
\* ------------------------------------------------------------------------
\* old | val of `buffer[i] |= val`
OrIntoOverwrite(old, val) == val
OrInto(old, val) == BitOr(old, val)

\* buffer[idx] |= val on the running state st = [buf, err]. An index past
\* either end raises IndexError. A value above 255 raises ValueError on
\* CPython and is stored truncated to its low 8 bits on MicroPython.
StoreOr(st, idx, val) ==
    IF st.err # "ok" THEN st
    ELSE LET n == BufLen(st.buf)
             i == IF idx < 0 THEN idx + n ELSE idx
         IN IF i < 0 \/ i >= n THEN [st EXCEPT !.err = "IndexError"]
            ELSE LET v == OrInto(Byte(st.buf, i), val)
                 IN IF v <= 255 THEN [st EXCEPT !.buf = WithByte(st.buf, i, v)]
                    ELSE IF runtime = "CPython" THEN [st EXCEPT !.err = "ValueError"]
                    ELSE [st EXCEPT !.buf = WithByte(st.buf, i, v % 256)]

\* buffer[idx] &= ~(1 << k)
StoreClearBit(st, idx, k) ==
    LET n == BufLen(st.buf)
        i == IF idx < 0 THEN idx + n ELSE idx
    IN IF i < 0 \/ i >= n THEN [st EXCEPT !.err = "IndexError"]
       ELSE [st EXCEPT !.buf = WithByte(st.buf, i, AndNotBit(Byte(st.buf, i), k))]

\* ------------------------------------------------------------------------
\* SSD1306.text (lines 109-153)
\* ------------------------------------------------------------------------
\* Lines 135-151: one source byte of a page-slice.
BlitByte(st, src_byte, dest_x, dest_page, y_offset_in_page) ==
    IF ~(0 <= dest_x /\ dest_x < width) THEN st
    ELSE IF y_offset_in_page = 0
    THEN IF 0 <= dest_page /\ dest_page < pages
         THEN StoreOr(st, dest_x + dest_page * width, src_byte)
         ELSE st
    ELSE LET st1 == IF 0 <= dest_page /\ dest_page < pages
                    THEN StoreOr(st, dest_x + dest_page * width,
                                 Shl(src_byte, y_offset_in_page))
                    ELSE st
         IN IF 0 <= dest_page + 1 /\ dest_page + 1 < pages
            THEN StoreOr(st1, dest_x + (dest_page + 1) * width,
                         Shr(src_byte, 8 - y_offset_in_page))
            ELSE st1

\* Lines 134-151: the columns i.. of one page-slice.
RECURSIVE BlitSlice(_, _, _, _, _, _)
BlitSlice(st, page_slice, i, current_x, dest_page, y_offset_in_page) ==
    IF i >= Len(page_slice) \/ st.err # "ok" THEN st
    ELSE BlitSlice(BlitByte(st, page_slice[i + 1], current_x + i, dest_page,
                            y_offset_in_page),
                   page_slice, i + 1, current_x, dest_page, y_offset_in_page)

\* Lines 130-151: the page-slices page_offset.. of one glyph.
RECURSIVE BlitGlyph(_, _, _, _, _, _)
BlitGlyph(st, paged, page_offset, current_x, start_page, y_offset_in_page) ==
    IF page_offset >= Len(paged) \/ st.err # "ok" THEN st
    ELSE BlitGlyph(BlitSlice(st, paged[page_offset + 1], 0, current_x,
                             start_page + page_offset, y_offset_in_page),
                   paged, page_offset + 1, current_x, start_page, y_offset_in_page)

\* font['characters'].get(char, default_char_def)
Lookup(font, char) ==
    IF char \in DOMAIN font.characters
    THEN font.characters[char]
    ELSE font.characters[font.default_character]

\* Lines 124-153: the characters k.. of the text.
RECURSIVE BlitText(_, _, _, _, _, _)
BlitText(st, font, text, k, current_x, y) ==
    IF k > Len(text) \/ st.err # "ok" THEN st
    ELSE LET cd == Lookup(font, text[k])
         IN BlitText(BlitGlyph(st, cd.paged_data, 0, current_x, y \div 8, y % 8),
                     font, text, k + 1, current_x + cd.char_width, y)

\* The whole call on the buffer buf with the font table font: [buf, err].
TextOutcome(buf, font, text, x, y) ==
    IF font = None THEN [buf |-> buf, err |-> "no_font"]
    ELSE IF font.default_character \notin DOMAIN font.characters
    THEN [buf |-> buf, err |-> "KeyError"]
    ELSE BlitText([buf |-> buf, err |-> "ok"], font, text, 1, x, y)

\* ------------------------------------------------------------------------
\* SSD1306.draw_pixel (lines 255-271) and SSD1306.fill (lines 103-107)
\* ------------------------------------------------------------------------
DrawPixelOutcome(buf, x, y, color) ==
    IF ~(0 <= x /\ x < width /\ 0 <= y /\ y < height)
    THEN [buf |-> buf, err |-> "ok"]
    ELSE LET page == y \div 8
             index == x + page * width
         IN IF color # 0
            THEN StoreOr([buf |-> buf, err |-> "ok"], index, Pow2(y % 8))
            ELSE StoreClearBit([buf |-> buf, err |-> "ok"], index, y % 8)

FillOutcome(buf, c) == IF c = 0 THEN Filled(buf, 0) ELSE Filled(buf, 255)

\* ------------------------------------------------------------------------
\* SSD1306.load_font (lines 196-247) and SSD1306.select_font (lines 249-253)
\* ------------------------------------------------------------------------
\* Line 205, on the bytes f.read(4) returned.
BadHeaderNoSecondByte(header) == Len(header) < 4 \/ header[1] # 80
BadHeader(header) == Len(header) < 4 \/ header[1] # 80 \/ header[2] # 70

\* Lines 219-230: the entries i.. of the character table; a later entry with
\* the same code replaces an earlier one.
RECURSIVE ParseTable(_, _, _, _)
ParseTable(header_data, i, count, acc) ==
    IF i >= count THEN acc
    ELSE LET index == 5 * i
             cd == [char_width |-> header_data[index + 2],
                    char_height |-> header_data[index + 3],
                    start_index |-> header_data[index + 4]
                                        + header_data[index + 5] * 256]
         IN ParseTable(header_data, i + 1, count,
                       (header_data[index + 1] :> cd) @@ acc)

\* The call's outcome on the file f = [exists, data]: [result, font].
LoadOutcome(font_name, f) ==
    IF ~f.exists THEN [result |-> "OSError", font |-> None]
    ELSE LET header == SubSeq(f.data, 1, Min(4, Len(f.data)))
         IN IF BadHeader(header) THEN [result |-> "unknown_format", font |-> None]
            ELSE LET count == header[4]
                     rest == SubSeq(f.data, 5, Len(f.data))
                     header_data == SubSeq(rest, 1, Min(5 * count, Len(rest)))
                     raw_font_data == SubSeq(rest, Len(header_data) + 1, Len(rest))
                 IN IF Len(header_data) < 5 * count
                    THEN [result |-> "IndexError", font |-> None]
                    ELSE LET defs == ParseTable(header_data, 0, count, NoChars)
                         IN IF \E c \in DOMAIN defs : ConvertRaises(defs[c], raw_font_data)
                            THEN [result |-> "IndexError", font |-> None]
                            ELSE [result |-> "ok",
                                  font |->
                                    [name |-> font_name,
                                     default_character |-> header[3],
                                     character_count |-> count,
                                     characters |->
                                       [c \in DOMAIN defs |->
                                          [char_width |-> defs[c].char_width,
                                           char_height |-> defs[c].char_height,
                                           paged_data |->
                                             ConvertCharToPagedFormat(defs[c],
                                                                      raw_font_data)]]]]

\* ------------------------------------------------------------------------
\* Spec: the calls made on one SSD1306 object
\* ------------------------------------------------------------------------
\* Rasterised glyphs of the fonts on the filesystem: a '?' and an 'A' two
\* pixels wide whose first column has rows 0, 4, 5, 7 and 9 lit, a 'B' three
\* pixels wide.
GlyphQ == [code |-> 63, w |-> 2,
           pixels |-> {<<0, 0>>, <<0, 4>>, <<0, 5>>, <<0, 7>>, <<0, 9>>,
                       <<1, 1>>, <<1, 8>>}]
GlyphA == [code |-> 65, w |-> 2,
           pixels |-> {<<0, 0>>, <<0, 4>>, <<0, 5>>, <<0, 7>>, <<0, 9>>,
                       <<1, 1>>, <<1, 8>>}]
GlyphB == [code |-> 66, w |-> 3,
           pixels |-> {<<0, 0>>, <<1, 0>>, <<2, 0>>, <<0, 1>>, <<2, 1>>,
                       <<0, 2>>, <<1, 2>>, <<2, 2>>, <<2, 6>>}]

\* The .pf files load_font can find: the font ttf_to_pf writes for the
\* charset "?B", the font it writes for the charset "A" (whose default
\* character '?' is not in its table), a file with another magic tag, a file
\* cut inside the header, a file cut inside the character table, and no file
\* at all.
FileQB == TtfToPf(<<GlyphQ, GlyphB>>, 10)
FileA == TtfToPf(<<GlyphA>>, 10)
FileBadMagic == [FileQB EXCEPT ![2] = 71]
FileShort == SubSeq(FileQB, 1, 3)
FileCutTable == SubSeq(FileQB, 1, 12)
Files ==
    {[exists |-> TRUE, data |-> d] :
        d \in {FileQB, FileA, FileBadMagic, FileShort, FileCutTable}}
    \cup {[exists |-> FALSE, data |-> <<>>]}

FontNames == {"a", "b"}
CtorDims == {<<WIDTH, HEIGHT>>, <<132, 64>>}
Runtimes == {"CPython", "MicroPython"}
TextStrings == {<<90>>, <<90, 66>>}
TextAt == {<<0, 0>>, <<0, 1>>, <<-1, 57>>, <<127, -1>>}
PixelCalls == {<<0, 0, 1>>, <<0, 0, 0>>, <<130, 63, 1>>, <<130, 63, 0>>}

\* LoadOutcome on every name and file load_font is called with.
LoadOutcomes == [n \in FontNames, f \in Files |-> LoadOutcome(n, f)]

Init ==
    /\ PagerIdle /\ EncIdle
    /\ runtime \in Runtimes
    /\ \E d \in CtorDims :
         /\ width = d[1]
         /\ height = d[2]
         /\ pages = InitPages(d[1], d[2])
         /\ buffer = InitBuffer(d[1], d[2])
    /\ fonts = NoChars
    /\ active_font = None
    /\ result = "ok"
    /\ lastOp = [op |-> "__init__"]
    /\ nLoads = 0
    /\ nDraws = 0

LoadFont(font_name, f) ==
    /\ nLoads < MaxLoads
    /\ LET o == LoadOutcomes[font_name, f]
       IN /\ result' = o.result
          /\ IF o.result = "ok"
             THEN /\ fonts' = (font_name :> o.font) @@ fonts
                  /\ active_font' = IF active_font = None
                                    THEN o.font
                                    ELSE active_font
             ELSE UNCHANGED <<fonts, active_font>>
    /\ nLoads' = nLoads + 1
    /\ lastOp' = [op |-> "load_font", font_name |-> font_name, file |-> f]
    /\ UNCHANGED <<runtime, width, height, pages, buffer, nDraws>>
    /\ UNCHANGED <<pagerVars, encVars>>

SelectFont(font_name) ==
    /\ IF font_name \in DOMAIN fonts
       THEN active_font' = fonts[font_name] /\ result' = "ok"
       ELSE active_font' = active_font /\ result' = "not_selected"
    /\ lastOp' = [op |-> "select_font", font_name |-> font_name]
    /\ UNCHANGED <<runtime, width, height, pages, buffer, fonts, nLoads, nDraws>>
    /\ UNCHANGED <<pagerVars, encVars>>

Text(text, x, y) ==
    /\ nDraws < MaxDraws
    /\ LET o == TextOutcome(buffer, active_font, text, x, y)
       IN buffer' = o.buf /\ result' = o.err
    /\ nDraws' = nDraws + 1
    /\ lastOp' = [op |-> "text", text |-> text, x |-> x, y |-> y]
    /\ UNCHANGED <<runtime, width, height, pages, fonts, active_font, nLoads>>
    /\ UNCHANGED <<pagerVars, encVars>>

DrawPixel(x, y, color) ==
    /\ nDraws < MaxDraws
    /\ LET o == DrawPixelOutcome(buffer, x, y, color)
       IN buffer' = o.buf /\ result' = o.err
    /\ nDraws' = nDraws + 1
    /\ lastOp' = [op |-> "draw_pixel", x |-> x, y |-> y, color |-> color]
    /\ UNCHANGED <<runtime, width, height, pages, fonts, active_font, nLoads>>
    /\ UNCHANGED <<pagerVars, encVars>>

Fill(c) ==
    /\ nDraws < MaxDraws
    /\ buffer' = FillOutcome(buffer, c)
    /\ result' = "ok"
    /\ nDraws' = nDraws + 1
    /\ lastOp' = [op |-> "fill", c |-> c]
    /\ UNCHANGED <<runtime, width, height, pages, fonts, active_font, nLoads>>
    /\ UNCHANGED <<pagerVars, encVars>>

Next ==
    \/ \E n \in FontNames, f \in Files : LoadFont(n, f)
    \/ \E n \in FontNames : SelectFont(n)
    \/ \E t \in TextStrings, p \in TextAt : Text(t, p[1], p[2])
    \/ \E p \in PixelCalls : DrawPixel(p[1], p[2], p[3])
    \/ \E c \in {0, 1} : Fill(c)

Spec == Init /\ [][Next]_vars

\* ------------------------------------------------------------------------
\* SpecEncode: ttf_to_pf's loop over the charset (lines 84-128), the blob
\* kept by its length
\* ------------------------------------------------------------------------
\* Number of bytes the row packer appends for one row of a glyph w wide: one
\* each time bit_count reaches 8, and one more for the bits left over.
RowLen(w) == (w \div 8) + (IF w % 8 > 0 THEN 1 ELSE 0)

\* Widths the rasteriser reports (x1 - x0) and line heights of the typeface.
EncWidths == {9, 255, 256}
LineHeights == {12, 255}
\* The character code of the i-th character of the charset (0-based): 'A', 'B', ...
CharCode(i) == 65 + i

InitEncode ==
    /\ DispIdle /\ PagerIdle
    /\ line_height \in LineHeights
    /\ bitmaps_len = 0
    /\ char_table = <<>>
    /\ glyph_starts = <<>>
    /\ enc = "run"

\* One iteration of the loop at line 92, for a glyph w wide. char_table.extend
\* raises ValueError on a value above 255, after the rows were appended.
EncodeChar(w) ==
    /\ enc = "run"
    /\ Len(glyph_starts) < MaxChars
    /\ LET start_index == bitmaps_len
           code == CharCode(Len(glyph_starts))
       IN /\ bitmaps_len' = bitmaps_len + line_height * RowLen(w)
          /\ IF w > 255 \/ line_height > 255 \/ code > 255
             THEN /\ enc' = "raised"
                  /\ UNCHANGED <<char_table, glyph_starts>>
             ELSE /\ char_table' = char_table
                                     \o TableEntry(code, w, line_height, start_index)
                  /\ glyph_starts' = Append(glyph_starts, start_index)
                  /\ enc' = enc
    /\ UNCHANGED line_height
    /\ UNCHANGED <<dispVars, pagerVars>>

\* Lines 125-128: the file is written.
WriteFile ==
    /\ enc = "run"
    /\ enc' = "written"
    /\ UNCHANGED <<line_height, bitmaps_len, char_table, glyph_starts>>
    /\ UNCHANGED <<dispVars, pagerVars>>

NextEncode == (\E w \in EncWidths : EncodeChar(w)) \/ WriteFile
SpecEncode == InitEncode /\ [][NextEncode]_vars

\* ------------------------------------------------------------------------
\* Claims
\* ------------------------------------------------------------------------
\* Pixel (col, row) of a paged glyph, 0 outside the glyph's slices.
GlyphBit(paged, w, col, row) ==
    IF 0 <= col /\ col < w /\ 0 <= row /\ row < 8 * Len(paged)
    THEN Bit(paged[(row \div 8) + 1][col + 1], row % 8)
    ELSE 0

\* The byte at (col, page) of the framebuffer after the glyph's pixels were
\* lit at (x, y) over the byte old.
LitByte(old, paged, w, x, y, col, page) ==
    LET b(k) == IF Bit(old, k) = 1 \/ GlyphBit(paged, w, col - x, 8 * page + k - y) = 1
                THEN Pow2(k) ELSE 0
    IN b(0) + b(1) + b(2) + b(3) + b(4) + b(5) + b(6) + b(7)

DefaultGeometry == width = WIDTH /\ height = HEIGHT
WellFormed(font) ==
    font # None /\ font.default_character \in DOMAIN font.characters

\* C1: on a display of the default geometry, text() of one character of a
\* well-formed active font at any (x, y) completes, and afterwards the
\* framebuffer pixel (x+i, y+8*po+k) is lit for exactly the set bits k of
\* paged[po][i] that land on screen, every other bit being as before.
C1_BlitBitExact ==
    [][(/\ lastOp'.op = "text"
        /\ Len(lastOp'.text) = 1
        /\ DefaultGeometry
        /\ WellFormed(active_font))
       => LET x == lastOp'.x
              y == lastOp'.y
              cd == Lookup(active_font, lastOp'.text[1])
          IN /\ result' = "ok"
             /\ BufLen(buffer') = BufLen(buffer)
             /\ \A idx \in 0..(BufLen(buffer) - 1) :
                  LET col == idx % WIDTH
                  IN IF col < x \/ col >= x + cd.char_width
                     THEN Byte(buffer', idx) = Byte(buffer, idx)
                     ELSE Byte(buffer', idx) =
                            LitByte(Byte(buffer, idx), cd.paged_data,
                                    cd.char_width, x, y, col,
                                    idx \div WIDTH)]_vars

\* C2: on a display of the default geometry, text() with a well-formed active
\* font never raises, whatever the position: neither on an index outside the
\* buffer nor on the value stored.
C2_NeverRaises ==
    (lastOp.op = "text" /\ DefaultGeometry /\ WellFormed(active_font))
        => result = "ok"

\* C3: the paged glyph has ceil(H/8) slices of W bytes; source pixel (x, y) is
\* lit if and only if bit (y mod 8) of paged[y div 8][x] is set; and the bits
\* of the last slice that lie below the glyph's last row are 0.
C3_PagingCorrect ==
    pc = "paged" =>
        /\ Len(paged_data) = (glyph.h + 7) \div 8
        /\ \A p \in 1..Len(paged_data) : Len(paged_data[p]) = glyph.w
        /\ \A x \in 0..(glyph.w - 1) :
             \A p \in 1..Len(paged_data), k \in 0..7 :
                 Bit(paged_data[p][x + 1], k) =
                     (IF <<x, 8 * (p - 1) + k>> \in glyph.pixels THEN 1 ELSE 0)
        /\ \A x \in 0..(glyph.w - 1), p \in 1..Len(paged_data) :
             paged_data[p][x + 1] \in 0..255

\* C3 witness: a glyph wider than one source byte per row and with a partial
\* last page has been paged from a blob offset above 0, its only lit pixel
\* being the last one of the last row.
C3_Witness ==
    /\ pc = "paged"
    /\ glyph.w > 8 /\ glyph.h > 8 /\ glyph.h % 8 # 0
    /\ glyph.pixels = {<<glyph.w - 1, glyph.h - 1>>}
    /\ char_def.start_index > 0
    /\ paged_data[2][glyph.w] = Pow2((glyph.h - 1) % 8)

\* The string text() is claimed to render for text: every character that is
\* not a key of the font's table replaced by the table's default character.
WithDefaults(font, text) ==
    [i \in 1..Len(text) |->
        IF text[i] \in DOMAIN font.characters
        THEN text[i]
        ELSE font.default_character]

\* C4: with an active font, text() of a string holding a character that is
\* not a key of the table does not fail in the lookup, and ends with the same
\* buffer and the same outcome as text() of the string with the table's
\* default character in that place, at the same position from the same
\* buffer.
C4_Fallback ==
    [][(/\ lastOp'.op = "text"
        /\ active_font # None
        /\ \E i \in 1..Len(lastOp'.text) :
              lastOp'.text[i] \notin DOMAIN active_font.characters)
       => LET o == TextOutcome(buffer, active_font,
                               WithDefaults(active_font, lastOp'.text),
                               lastOp'.x, lastOp'.y)
          IN /\ result' # "KeyError"
             /\ buffer' = o.buf
             /\ result' = o.err]_vars

\* C5: the default character of every registered font table, and of the
\* active one, is a key of its character table.
C5_DefaultIsKey ==
    /\ \A n \in DOMAIN fonts :
         fonts[n].default_character \in DOMAIN fonts[n].characters
    /\ active_font # None =>
         active_font.default_character \in DOMAIN active_font.characters

\* C6: load_font on a stream shorter than 4 bytes, or whose first two bytes
\* are not "PF", reports the unknown format and leaves the loaded fonts and
\* the active font as they were.
C6_FormatRejection ==
    [][(/\ lastOp'.op = "load_font"
        /\ lastOp'.file.exists
        /\ LET data == lastOp'.file.data
           IN Len(data) < 4 \/ data[1] # 80 \/ data[2] # 70)
       => /\ result' = "unknown_format"
          /\ fonts' = fonts
          /\ active_font' = active_font]_vars

\* C6 witness: with a font registered and active, a load_font call has just
\* reported the unknown format.
C6_Witness ==
    /\ lastOp.op = "load_font"
    /\ result = "unknown_format"
    /\ DOMAIN fonts # {}
    /\ active_font # None

\* The indices at which two bytearrays of the same length can differ: all of
\* them when the backgrounds differ, else those either one keeps apart.
Differing(a, b) ==
    IF a.bg # b.bg THEN 0..(a.n - 1) ELSE (DOMAIN a.fg) \cup (DOMAIN b.fg)

\* C7: no call other than fill() and draw_pixel(x, y, 0), and so neither
\* text() nor draw_pixel(x, y, color # 0), turns a framebuffer bit that is 1
\* into 0.
C7_NoBitReset ==
    [][(/\ lastOp'.op # "fill"
        /\ ~(lastOp'.op = "draw_pixel" /\ lastOp'.color = 0))
       => /\ BufLen(buffer') = BufLen(buffer)
          /\ \A i \in Differing(buffer, buffer') :
               \A k \in 0..7 :
                   Bit(Byte(buffer, i), k) = 1 => Bit(Byte(buffer', i), k) = 1]_vars

\* C7 witness: a glyph has just been blitted, its set bits 1, 5 and 6 landing
\* in a byte whose bit 0 was lit before, and all four are lit.
C7_Witness ==
    /\ lastOp.op = "text"
    /\ result = "ok"
    /\ nDraws = 2
    /\ Byte(buffer, 0) = 99

\* C8: the framebuffer holds width * (height / 8) bytes, and no index
\* draw_pixel or text() computes for a pixel inside the display lies outside
\* the buffer.
C8_BufferGeometry ==
    /\ BufLen(buffer) = width * (height \div 8)
    /\ lastOp.op \in {"draw_pixel", "text"} => result # "IndexError"

\* C9: in the file ttf_to_pf writes, the start_index load_font reads from
\* each glyph's table entry is the blob offset at which that glyph's rows
\* begin.
C9_StartIndexIsOffset ==
    enc = "written" =>
        LET n == Len(glyph_starts)
            defs == ParseTable(char_table, 0, n, NoChars)
        IN \A i \in 1..n : defs[CharCode(i - 1)].start_index = glyph_starts[i]

\* C10: the active font is None or the table registered in the loaded-fonts
\* map under its own name.
C10_ActiveIsRegistered ==
    \/ active_font = None
    \/ /\ active_font.name \in DOMAIN fonts
       /\ fonts[active_font.name] = active_font
====
